---- MODULE Spec2Model ----
(***************************************************************************)
(* Bookstore inventory API: the author and book services over their       *)
(* repositories and the document store.                                   *)
(*                                                                         *)
(* Strings that the code inspects (names) are sequences of characters;    *)
(* ids are the strings a client sends, distinct from the ObjectId the     *)
(* store keys a document by.  Every store round trip of a service         *)
(* operation is one step of the request that runs it.                     *)
(***************************************************************************)
EXTENDS Integers, Sequences, FiniteSets, TLC

VARIABLES authors, books, nextAuthorOid, nextBookOid, clock, procs

vars == <<authors, books, nextAuthorOid, nextBookOid, clock, procs>>

(***************************************************************************)
(* Bounds                                                                  *)
(***************************************************************************)
MaxAuthors == 2
MaxBooks == 2
MaxStock == 2
MaxClock == 1
MaxDocs == 2

(***************************************************************************)
(* Strings                                                                 *)
(***************************************************************************)
\* String.prototype.toLowerCase on one character of the alphabet in use.
LowerChar(c) ==
  CASE c = "A" -> "a"
    [] c = "B" -> "b"
    [] c = "G" -> "g"
    [] c = "T" -> "t"
    [] OTHER -> c

toLowerCase(s) == [i \in 1..Len(s) |-> LowerChar(s[i])]

\* String.prototype.includes: q occurs in s.
includes(s, q) ==
  \E j \in 0..(Len(s) - Len(q)) : \A k \in 1..Len(q) : s[j + k] = q[k]

\* new RegExp(name, "i") throws a SyntaxError on an unterminated group.
RegExpThrows(pat) == \E i \in 1..Len(pat) : pat[i] = "("

\* Does pattern pat, from its element i on, match s at position j?
\* "$" asserts the end of the input; any other character matches itself,
\* ignoring case.
RECURSIVE MatchAt(_, _, _, _)
MatchAt(pat, s, i, j) ==
  IF i > Len(pat) THEN TRUE
  ELSE IF pat[i] = "$" THEN j = Len(s) + 1 /\ MatchAt(pat, s, i + 1, j)
  ELSE /\ j <= Len(s)
       /\ LowerChar(s[j]) = LowerChar(pat[i])
       /\ MatchAt(pat, s, i + 1, j + 1)

\* { field: new RegExp(name, "i") }: an unanchored, case-insensitive search.
RegExpTest(pat, s) == \E j \in 1..(Len(s) + 1) : MatchAt(pat, s, 1, j)

(***************************************************************************)
(* Ids                                                                     *)
(* An id string is <<collection, n, form>>: the 24 hex digits of ObjectId *)
(* <<collection, n>> in lower case ("lc") or upper case ("uc"), or a       *)
(* string that is not 24 hex digits ("bad").                              *)
(***************************************************************************)
IdString(c, n, form) == <<c, n, form>>

BadId == IdString("X", 0, "bad")

\* new ObjectId(id) throws unless id is 24 hex digits (of either case).
ObjectIdThrows(id) == id[3] = "bad"

ObjectId(id) == <<id[1], id[2]>>

\* ObjectId.prototype.toString: lower-case hex.
ObjectIdToString(oid) == IdString(oid[1], oid[2], "lc")

(***************************************************************************)
(* The store: each collection maps the number n of a stored ObjectId to   *)
(* its document; the next* counters are the ObjectIds not yet handed out. *)
(* clock is the time that new Date() reads.                                *)
(***************************************************************************)
Store(as, bs, na, nb, now) ==
  [authors |-> as, books |-> bs, nextAuthorOid |-> na, nextBookOid |-> nb,
   clock |-> now]

\* { ...doc, ...patch }: the fields of patch replace those of doc.
Merge(doc, patch) ==
  [f \in (DOMAIN doc) \cup (DOMAIN patch) |->
     IF f \in DOMAIN patch THEN patch[f] ELSE doc[f]]

\* collection.insertOne(doc) under the fresh ObjectId n.
Insert(coll, n, doc) ==
  [k \in (DOMAIN coll) \cup {n} |-> IF k = n THEN doc ELSE coll[k]]

\* collection.deleteOne({ _id }).
Remove(coll, n) == [k \in (DOMAIN coll) \ {n} |-> coll[k]]

\* collection.findOne({ _id: new ObjectId(id) }) finds a document of
\* collection c.
Stored(coll, c, id) == ObjectId(id)[1] = c /\ ObjectId(id)[2] \in DOMAIN coll

\* { ...doc, _id: doc._id.toString() }: document n of collection c as the
\* repository returns it.
WithId(c, n, doc) == Merge(doc, [_id |-> ObjectIdToString(<<c, n>>)])

\* find(...).toArray() mapped to records: the documents of collection c
\* stored under the numbers ns, in the order of insertion.
Docs(coll, c, ns) ==
  LET key(i) == CHOOSE n \in ns : Cardinality({m \in ns : m < n}) = i - 1
  IN  [i \in 1..Cardinality(ns) |-> WithId(c, key(i), coll[key(i)])]

\* findAll: collection.find({}).toArray().
FindAll(coll, c) == Docs(coll, c, DOMAIN coll)

(***************************************************************************)
(* Author repository                                                       *)
(***************************************************************************)
\* findById: "ok", "NotFoundError", or "DatabaseError" when the id does not
\* convert to an ObjectId.
AuthorFindById(as, id) ==
  IF ObjectIdThrows(id) THEN "DatabaseError"
  ELSE IF Stored(as, "A", id) THEN "ok"
  ELSE "NotFoundError"

\* findByName: the stored authors whose first, last or full name matches
\* the regular expression built from name.
AuthorFindByName(as, name) ==
  {n \in DOMAIN as : \/ RegExpTest(name, as[n].firstName)
                     \/ RegExpTest(name, as[n].lastName)
                     \/ RegExpTest(name, as[n].fullName)}

\* findByIds: ids without a stored author are left out.
AuthorFindByIds(as, ids) ==
  {n \in DOMAIN as : \E i \in 1..Len(ids) : ObjectId(ids[i]) = <<"A", n>>}

(***************************************************************************)
(* Author service                                                          *)
(***************************************************************************)
\* validateAuthorExists that turns NotFoundError into true.
validateAuthorExistsNotFoundTrue(as, id) ==
  LET r == AuthorFindById(as, id)
  IN  IF r = "ok" THEN "true"
      ELSE IF r = "NotFoundError" THEN "true"
      ELSE r

\* validateAuthorExists: findById, with NotFoundError turned into false.
validateAuthorExists(as, id) ==
  LET r == AuthorFindById(as, id)
  IN  IF r = "ok" THEN "true"
      ELSE IF r = "NotFoundError" THEN "false"
      ELSE r

\* createAuthor's duplicate: a found author with the same lower-cased
\* full name.
CreateAuthorDuplicate(as, fullName) ==
  \E n \in AuthorFindByName(as, fullName) :
     toLowerCase(as[n].fullName) = toLowerCase(fullName)

\* updateAuthor's duplicate: the same, for an author whose _id string
\* differs from the id of the request.
UpdateAuthorDuplicate(as, id, fullName) ==
  \E n \in AuthorFindByName(as, fullName) :
     /\ toLowerCase(as[n].fullName) = toLowerCase(fullName)
     /\ ObjectIdToString(<<"A", n>>) # id

\* if (updateData.fullName): present and not the empty string.
Truthy(patch, f) == f \in DOMAIN patch /\ patch[f] # <<>>

(***************************************************************************)
(* Book repository                                                         *)
(***************************************************************************)
BookFindById(bs, id) ==
  IF ObjectIdThrows(id) THEN "DatabaseError"
  ELSE IF Stored(bs, "B", id) THEN "ok"
  ELSE "NotFoundError"

\* books.find((b) => b.isbn === bookData.isbn)
ExistingBook(bs, isbn) == \E n \in DOMAIN bs : bs[n].isbn = isbn

(***************************************************************************)
(* Requests.  A request is [op, id, data, pc, i, tmp, outcome, result]:   *)
(* the operation with its arguments, the store call it is about to make,  *)
(* the index of the author id under validation, a local (the inserted     *)
(* ObjectId, or newStock), how it ended, and the value it returned.       *)
(***************************************************************************)
NoId == IdString("X", 0, "none")

NoData == [none |-> TRUE]

NoResult == <<>>

Idle ==
  [op |-> "none", id |-> NoId, data |-> NoData, pc |-> "done", i |-> 0,
   tmp |-> 0, outcome |-> "none", result |-> NoResult]

\* The first store call of an operation.
InitialPc(op, data) ==
  CASE op = "createAuthor" -> "findByName"
    [] op = "updateAuthor" ->
         IF Truthy(data, "fullName") THEN "findByName" ELSE "findOneAndUpdate"
    [] op = "deleteAuthor" -> "deleteOne"
    [] op = "createBook" ->
         IF Len(data.authorIds) > 0 THEN "validateAuthorExists" ELSE "findAll"
    [] op = "updateBook" ->
         IF "authorIds" \in DOMAIN data /\ Len(data.authorIds) > 0
         THEN "validateAuthorExists" ELSE "findOneAndUpdate"
    [] op = "deleteBook" -> "deleteOne"
    [] op = "updateStock" -> "findById"
    [] op \in {"getAuthorById", "getBookById", "validateAuthorExists"} ->
         "findOne"
    [] op \in {"booksWithAuthors", "searchBooks", "getBooksByGenre",
                "searchAuthors"} -> "findAll"
    [] op = "getBooksByAuthor" -> "findByName"

Start(op, id, data) ==
  [op |-> op, id |-> id, data |-> data, pc |-> InitialPc(op, data),
   i |-> IF InitialPc(op, data) = "validateAuthorExists" THEN 1 ELSE 0,
   tmp |-> 0, outcome |-> "pending", result |-> NoResult]

\* The request fails with error outcome (or ends with no value: delete).
Done(st, pr, outcome) ==
  [st |-> st, pr |-> [pr EXCEPT !.pc = "done", !.outcome = outcome]]

\* The request succeeds with value.
Return(st, pr, value) ==
  [st |-> st,
   pr |-> [pr EXCEPT !.pc = "done", !.outcome = "ok", !.result = value]]

Goto(st, pr, pc) == [st |-> st, pr |-> [pr EXCEPT !.pc = pc]]

\* repository update with { upsert: true }: a document that is not stored
\* is stored with the fields of the patch.
RepoUpdateUpsert(st, pr, c, patch) ==
  LET coll == IF c = "A" THEN st.authors ELSE st.books
      n == ObjectId(pr.id)[2]
      set == Merge(patch, [updatedAt |-> st.clock])
      new == IF Stored(coll, c, pr.id) THEN [coll EXCEPT ![n] = Merge(@, set)]
             ELSE Insert(coll, n, set)
  IN  IF ObjectIdThrows(pr.id) THEN Done(st, pr, "DatabaseError")
      ELSE IF c = "A"
           THEN Return([st EXCEPT !.authors = new], pr, WithId(c, n, new[n]))
      ELSE Return([st EXCEPT !.books = new], pr, WithId(c, n, new[n]))

\* repository update that replaces the document by the patch.
RepoUpdateReplace(st, pr, c, patch) ==
  LET coll == IF c = "A" THEN st.authors ELSE st.books
      n == ObjectId(pr.id)[2]
      set == Merge(patch, [updatedAt |-> st.clock])
      new == [coll EXCEPT ![n] = set]
  IN  IF ObjectIdThrows(pr.id) THEN Done(st, pr, "DatabaseError")
      ELSE IF ~Stored(coll, c, pr.id) THEN Done(st, pr, "NotFoundError")
      ELSE IF c = "A"
           THEN Return([st EXCEPT !.authors = new], pr, WithId(c, n, new[n]))
      ELSE Return([st EXCEPT !.books = new], pr, WithId(c, n, new[n]))

\* repository update: findOneAndUpdate({ _id }, { $set: { ...patch,
\* updatedAt: now } }, { returnDocument: "after" }).
RepoUpdate(st, pr, c, patch) ==
  LET coll == IF c = "A" THEN st.authors ELSE st.books
      n == ObjectId(pr.id)[2]
      set == Merge(patch, [updatedAt |-> st.clock])
      new == [coll EXCEPT ![n] = Merge(@, set)]
  IN  IF ObjectIdThrows(pr.id) THEN Done(st, pr, "DatabaseError")
      ELSE IF ~Stored(coll, c, pr.id) THEN Done(st, pr, "NotFoundError")
      ELSE IF c = "A"
           THEN Return([st EXCEPT !.authors = new], pr, WithId(c, n, new[n]))
      ELSE Return([st EXCEPT !.books = new], pr, WithId(c, n, new[n]))

\* repository delete: deleteOne({ _id }), NotFoundError when deletedCount
\* is 0.
RepoDelete(st, pr, c) ==
  LET coll == IF c = "A" THEN st.authors ELSE st.books
      n == ObjectId(pr.id)[2]
  IN  IF ObjectIdThrows(pr.id) THEN Done(st, pr, "DatabaseError")
      ELSE IF ~Stored(coll, c, pr.id) THEN Done(st, pr, "NotFoundError")
      ELSE IF c = "A"
           THEN Done([st EXCEPT !.authors = Remove(coll, n)], pr, "ok")
      ELSE Done([st EXCEPT !.books = Remove(coll, n)], pr, "ok")

\* repository create that reads the time once for each timestamp, the
\* second time a tick later.
RepoInsertOneTwoDates(st, pr, c) ==
  LET doc == Merge(pr.data, [createdAt |-> st.clock,
                             updatedAt |-> st.clock + 1])
  IN  IF c = "A"
      THEN [st |-> [st EXCEPT !.authors = Insert(@, st.nextAuthorOid, doc),
                              !.nextAuthorOid = @ + 1],
            pr |-> [pr EXCEPT !.pc = "findOne", !.tmp = st.nextAuthorOid]]
      ELSE [st |-> [st EXCEPT !.books = Insert(@, st.nextBookOid, doc),
                              !.nextBookOid = @ + 1],
            pr |-> [pr EXCEPT !.pc = "findOne", !.tmp = st.nextBookOid]]

\* repository create, first call: insertOne({ ...data, createdAt: now,
\* updatedAt: now }) under a fresh ObjectId.
RepoInsertOne(st, pr, c) ==
  LET doc == Merge(pr.data, [createdAt |-> st.clock, updatedAt |-> st.clock])
  IN  IF c = "A"
      THEN [st |-> [st EXCEPT !.authors = Insert(@, st.nextAuthorOid, doc),
                              !.nextAuthorOid = @ + 1],
            pr |-> [pr EXCEPT !.pc = "findOne", !.tmp = st.nextAuthorOid]]
      ELSE [st |-> [st EXCEPT !.books = Insert(@, st.nextBookOid, doc),
                              !.nextBookOid = @ + 1],
            pr |-> [pr EXCEPT !.pc = "findOne", !.tmp = st.nextBookOid]]

\* repository create, second call: findOne({ _id: insertedId }).
RepoFindInserted(st, pr, c) ==
  LET coll == IF c = "A" THEN st.authors ELSE st.books
  IN  IF pr.tmp \in DOMAIN coll
      THEN Return(st, pr, WithId(c, pr.tmp, coll[pr.tmp]))
      ELSE Done(st, pr, "DatabaseError")

(***************************************************************************)
(* Service operations: the next store call of request pr on store st.     *)
(***************************************************************************)
\* createAuthor that looks for the duplicate again when it inserts.
createAuthorRecheck(st, pr) ==
  CASE pr.pc = "findByName" ->
         IF RegExpThrows(pr.data.fullName) THEN Done(st, pr, "DatabaseError")
         ELSE IF CreateAuthorDuplicate(st.authors, pr.data.fullName)
              THEN Done(st, pr, "BusinessError")
         ELSE Goto(st, pr, "insertOne")
    [] pr.pc = "insertOne" ->
         IF CreateAuthorDuplicate(st.authors, pr.data.fullName)
         THEN Done(st, pr, "BusinessError")
         ELSE RepoInsertOne(st, pr, "A")
    [] pr.pc = "findOne" -> RepoFindInserted(st, pr, "A")

createAuthor(st, pr) ==
  CASE pr.pc = "findByName" ->
         IF RegExpThrows(pr.data.fullName) THEN Done(st, pr, "DatabaseError")
         ELSE IF CreateAuthorDuplicate(st.authors, pr.data.fullName)
              THEN Done(st, pr, "BusinessError")
         ELSE Goto(st, pr, "insertOne")
    [] pr.pc = "insertOne" -> RepoInsertOne(st, pr, "A")
    [] pr.pc = "findOne" -> RepoFindInserted(st, pr, "A")

\* updateAuthor that applies the patch before it reports the duplicate.
updateAuthorWriteFirst(st, pr) ==
  CASE pr.pc = "findByName" ->
         IF RegExpThrows(pr.data.fullName) THEN Done(st, pr, "DatabaseError")
         ELSE IF UpdateAuthorDuplicate(st.authors, pr.id, pr.data.fullName)
              THEN Done(RepoUpdate(st, pr, "A", pr.data).st, pr,
                        "BusinessError")
         ELSE Goto(st, pr, "findOneAndUpdate")
    [] pr.pc = "findOneAndUpdate" -> RepoUpdate(st, pr, "A", pr.data)

updateAuthor(st, pr) ==
  CASE pr.pc = "findByName" ->
         IF RegExpThrows(pr.data.fullName) THEN Done(st, pr, "DatabaseError")
         ELSE IF UpdateAuthorDuplicate(st.authors, pr.id, pr.data.fullName)
              THEN Done(st, pr, "BusinessError")
         ELSE Goto(st, pr, "findOneAndUpdate")
    [] pr.pc = "findOneAndUpdate" -> RepoUpdate(st, pr, "A", pr.data)

\* deleteAuthor that also deletes the books of the author.
deleteAuthorCascade(st, pr) ==
  LET r == RepoDelete(st, pr, "A")
      kept == {n \in DOMAIN st.books :
                 \A i \in 1..Len(st.books[n].authorIds) :
                    ObjectIdThrows(pr.id)
                      \/ ObjectId(st.books[n].authorIds[i]) # ObjectId(pr.id)}
  IN  [st |-> [r.st EXCEPT !.books = [n \in kept |-> st.books[n]]],
       pr |-> r.pr]

deleteAuthor(st, pr) == RepoDelete(st, pr, "A")

\* new ValidationError({ message: `Author with ID ${authorId} does not
\* exist` }): the request fails with a message that names authorId.
FailNaming(st, pr, outcome, authorId) ==
  [st |-> st,
   pr |-> [pr EXCEPT !.pc = "done", !.outcome = outcome,
                     !.result = [message |-> authorId]]]

\* One turn of the loop over the author ids of a book request; after the
\* last id the request goes on to the store call after.
ValidateAuthorIds(st, pr, after) ==
  LET r == validateAuthorExists(st.authors, pr.data.authorIds[pr.i])
  IN  IF r = "DatabaseError" THEN Done(st, pr, "DatabaseError")
      ELSE IF r = "false"
           THEN FailNaming(st, pr, "ValidationError", pr.data.authorIds[pr.i])
      ELSE IF pr.i < Len(pr.data.authorIds)
           THEN [st |-> st, pr |-> [pr EXCEPT !.i = @ + 1]]
      ELSE Goto(st, pr, after)

\* createBook with a duplicate check that also compares the author ids.
createBookSameAuthors(st, pr) ==
  CASE pr.pc = "validateAuthorExists" -> ValidateAuthorIds(st, pr, "findAll")
    [] pr.pc = "findAll" ->
         IF \E n \in DOMAIN st.books :
              /\ st.books[n].isbn = pr.data.isbn
              /\ st.books[n].authorIds = pr.data.authorIds
         THEN Done(st, pr, "BusinessError")
         ELSE Goto(st, pr, "insertOne")
    [] pr.pc = "insertOne" -> RepoInsertOne(st, pr, "B")
    [] pr.pc = "findOne" -> RepoFindInserted(st, pr, "B")

\* createBook that looks for the ISBN again when it inserts.
createBookRecheck(st, pr) ==
  CASE pr.pc = "validateAuthorExists" -> ValidateAuthorIds(st, pr, "findAll")
    [] pr.pc = "findAll" ->
         IF ExistingBook(st.books, pr.data.isbn)
         THEN Done(st, pr, "BusinessError")
         ELSE Goto(st, pr, "insertOne")
    [] pr.pc = "insertOne" ->
         IF ExistingBook(st.books, pr.data.isbn)
         THEN Done(st, pr, "BusinessError")
         ELSE RepoInsertOne(st, pr, "B")
    [] pr.pc = "findOne" -> RepoFindInserted(st, pr, "B")

createBook(st, pr) ==
  CASE pr.pc = "validateAuthorExists" -> ValidateAuthorIds(st, pr, "findAll")
    [] pr.pc = "findAll" ->
         IF ExistingBook(st.books, pr.data.isbn)
         THEN Done(st, pr, "BusinessError")
         ELSE Goto(st, pr, "insertOne")
    [] pr.pc = "insertOne" -> RepoInsertOne(st, pr, "B")
    [] pr.pc = "findOne" -> RepoFindInserted(st, pr, "B")

updateBook(st, pr) ==
  CASE pr.pc = "validateAuthorExists" ->
         ValidateAuthorIds(st, pr, "findOneAndUpdate")
    [] pr.pc = "findOneAndUpdate" -> RepoUpdate(st, pr, "B", pr.data)

deleteBook(st, pr) == RepoDelete(st, pr, "B")

\* updateStock that writes with $inc: the quantity is added to the stock
\* stored at the time of the write.
updateStockInc(st, pr) ==
  CASE pr.pc = "findById" ->
         LET r == BookFindById(st.books, pr.id)
             newStock == st.books[ObjectId(pr.id)[2]].stock + pr.data.quantity
         IN  IF r # "ok" THEN Done(st, pr, r)
             ELSE IF newStock < 0 THEN Done(st, pr, "BusinessError")
             ELSE [st |-> st,
                   pr |-> [pr EXCEPT !.pc = "findOneAndUpdate",
                                     !.tmp = newStock]]
    [] pr.pc = "findOneAndUpdate" ->
         IF Stored(st.books, "B", pr.id)
         THEN RepoUpdate(st, pr, "B",
                         [stock |-> st.books[ObjectId(pr.id)[2]].stock
                                      + pr.data.quantity])
         ELSE RepoUpdate(st, pr, "B", [stock |-> pr.tmp])

\* updateStock that reports insufficient stock as a validation error.
updateStockValidationError(st, pr) ==
  CASE pr.pc = "findById" ->
         LET r == BookFindById(st.books, pr.id)
             newStock == st.books[ObjectId(pr.id)[2]].stock + pr.data.quantity
         IN  IF r # "ok" THEN Done(st, pr, r)
             ELSE IF newStock < 0 THEN Done(st, pr, "ValidationError")
             ELSE [st |-> st,
                   pr |-> [pr EXCEPT !.pc = "findOneAndUpdate",
                                     !.tmp = newStock]]
    [] pr.pc = "findOneAndUpdate" ->
         RepoUpdate(st, pr, "B", [stock |-> pr.tmp])

\* updateStock that rejects a stock of zero.
updateStockRejectsZero(st, pr) ==
  CASE pr.pc = "findById" ->
         LET r == BookFindById(st.books, pr.id)
             newStock == st.books[ObjectId(pr.id)[2]].stock + pr.data.quantity
         IN  IF r # "ok" THEN Done(st, pr, r)
             ELSE IF newStock <= 0 THEN Done(st, pr, "BusinessError")
             ELSE [st |-> st,
                   pr |-> [pr EXCEPT !.pc = "findOneAndUpdate",
                                     !.tmp = newStock]]
    [] pr.pc = "findOneAndUpdate" ->
         RepoUpdate(st, pr, "B", [stock |-> pr.tmp])

updateStock(st, pr) ==
  CASE pr.pc = "findById" ->
         LET r == BookFindById(st.books, pr.id)
             newStock == st.books[ObjectId(pr.id)[2]].stock + pr.data.quantity
         IN  IF r # "ok" THEN Done(st, pr, r)
             ELSE IF newStock < 0 THEN Done(st, pr, "BusinessError")
             ELSE [st |-> st,
                   pr |-> [pr EXCEPT !.pc = "findOneAndUpdate",
                                     !.tmp = newStock]]
    [] pr.pc = "findOneAndUpdate" ->
         RepoUpdate(st, pr, "B", [stock |-> pr.tmp])

getAuthorById(st, pr) ==
  LET r == AuthorFindById(st.authors, pr.id)
      n == ObjectId(pr.id)[2]
  IN  IF r = "ok" THEN Return(st, pr, WithId("A", n, st.authors[n]))
      ELSE Done(st, pr, r)

getBookById(st, pr) ==
  LET r == BookFindById(st.books, pr.id)
      n == ObjectId(pr.id)[2]
  IN  IF r = "ok" THEN Return(st, pr, WithId("B", n, st.books[n]))
      ELSE Done(st, pr, r)

\* validateAuthorExists called on its own: the boolean it yields, or the
\* error it fails with.
validateAuthorExistsCall(st, pr) ==
  LET r == validateAuthorExists(st.authors, pr.id)
  IN  IF r \in {"true", "false"} THEN Return(st, pr, r) ELSE Done(st, pr, r)

\* getAuthorsByIds fails with DatabaseError when an id does not convert
\* to an ObjectId.
getAuthorsByIdsThrows(ids) == \E i \in 1..Len(ids) : ObjectIdThrows(ids[i])

\* getAuthorsByIds: the author records found for ids.
getAuthorsByIds(as, ids) == Docs(as, "A", AuthorFindByIds(as, ids))

\* The view that fails with NotFoundError when an author id of a book has
\* no stored author.
booksWithAuthorsStrict(st, pr) ==
  CASE pr.pc = "findAll" ->
         LET bks == FindAll(st.books, "B")
         IN  IF Len(bks) = 0 THEN Return(st, pr, <<>>)
             ELSE [st |-> st,
                   pr |-> [pr EXCEPT !.pc = "findByIds", !.tmp = bks,
                                     !.i = 1, !.result = <<>>]]
    [] pr.pc = "findByIds" ->
         LET book == pr.tmp[pr.i]
             found == getAuthorsByIds(st.authors, book.authorIds)
             entry == Merge(book, [authors |-> found])
         IN  IF getAuthorsByIdsThrows(book.authorIds)
             THEN Done(st, pr, "DatabaseError")
             ELSE IF \E k \in 1..Len(book.authorIds) :
                        ~Stored(st.authors, "A", book.authorIds[k])
                  THEN Done(st, pr, "NotFoundError")
             ELSE IF pr.i < Len(pr.tmp)
                  THEN [st |-> st,
                        pr |-> [pr EXCEPT !.i = @ + 1,
                                          !.result = Append(@, entry)]]
             ELSE Return(st, pr, Append(pr.result, entry))

\* GET /api/books-with-authors: getAllBooks, then one getAuthorsByIds for
\* each book; tmp holds the books read, i the book whose turn it is.
booksWithAuthors(st, pr) ==
  CASE pr.pc = "findAll" ->
         LET bks == FindAll(st.books, "B")
         IN  IF Len(bks) = 0 THEN Return(st, pr, <<>>)
             ELSE [st |-> st,
                   pr |-> [pr EXCEPT !.pc = "findByIds", !.tmp = bks,
                                     !.i = 1, !.result = <<>>]]
    [] pr.pc = "findByIds" ->
         LET book == pr.tmp[pr.i]
             found == getAuthorsByIds(st.authors, book.authorIds)
             entry == Merge(book, [authors |-> found])
         IN  IF getAuthorsByIdsThrows(book.authorIds)
             THEN Done(st, pr, "DatabaseError")
             ELSE IF pr.i < Len(pr.tmp)
                  THEN [st |-> st,
                        pr |-> [pr EXCEPT !.i = @ + 1,
                                          !.result = Append(@, entry)]]
             ELSE Return(st, pr, Append(pr.result, entry))

\* author.firstName / lastName / fullName .toLowerCase().includes(query
\* .toLowerCase()) for some author of the list.
authorMatch(found, query) ==
  \E k \in 1..Len(found) :
     \/ includes(toLowerCase(found[k].firstName), toLowerCase(query))
     \/ includes(toLowerCase(found[k].lastName), toLowerCase(query))
     \/ includes(toLowerCase(found[k].fullName), toLowerCase(query))

\* searchBooks without the continue after a match by title or genre: the
\* authors are looked up for every book.
searchBooksNoContinue(st, pr) ==
  CASE pr.pc = "findAll" ->
         LET bks == FindAll(st.books, "B")
         IN  IF Len(bks) = 0 THEN Return(st, pr, <<>>)
             ELSE [st |-> st,
                   pr |-> [pr EXCEPT !.pc = "loop", !.tmp = bks,
                                     !.i = 1, !.result = <<>>]]
    [] pr.pc = "loop" ->
         LET book == pr.tmp[pr.i]
             q == toLowerCase(pr.data.query)
             found == getAuthorsByIds(st.authors, book.authorIds)
             titleOrGenre == \/ includes(toLowerCase(book.title), q)
                             \/ includes(toLowerCase(book.genre), q)
             pushed == IF titleOrGenre THEN Append(pr.result, book)
                       ELSE pr.result
             filteredBooks ==
               IF authorMatch(found, pr.data.query) THEN Append(pushed, book)
               ELSE pushed
         IN  IF getAuthorsByIdsThrows(book.authorIds)
             THEN Done(st, pr, "DatabaseError")
             ELSE IF pr.i < Len(pr.tmp)
                  THEN [st |-> st,
                        pr |-> [pr EXCEPT !.i = @ + 1,
                                          !.result = filteredBooks]]
             ELSE Return(st, pr, filteredBooks)

\* searchBooks: findAll, then one turn of the loop for each book.
searchBooks(st, pr) ==
  CASE pr.pc = "findAll" ->
         LET bks == FindAll(st.books, "B")
         IN  IF Len(bks) = 0 THEN Return(st, pr, <<>>)
             ELSE [st |-> st,
                   pr |-> [pr EXCEPT !.pc = "loop", !.tmp = bks,
                                     !.i = 1, !.result = <<>>]]
    [] pr.pc = "loop" ->
         LET book == pr.tmp[pr.i]
             q == toLowerCase(pr.data.query)
             found == getAuthorsByIds(st.authors, book.authorIds)
             titleOrGenre == \/ includes(toLowerCase(book.title), q)
                             \/ includes(toLowerCase(book.genre), q)
             filteredBooks ==
               IF titleOrGenre THEN Append(pr.result, book)
               ELSE IF authorMatch(found, pr.data.query)
                    THEN Append(pr.result, book)
               ELSE pr.result
         IN  IF ~titleOrGenre /\ getAuthorsByIdsThrows(book.authorIds)
             THEN Done(st, pr, "DatabaseError")
             ELSE IF pr.i < Len(pr.tmp)
                  THEN [st |-> st,
                        pr |-> [pr EXCEPT !.i = @ + 1,
                                          !.result = filteredBooks]]
             ELSE Return(st, pr, filteredBooks)

\* getBooksByAuthor: getAuthorsByName, then findAll filtered by
\* book.authorIds.some((authorId) => authorIds.includes(authorId)), a
\* comparison of id strings.
getBooksByAuthor(st, pr) ==
  CASE pr.pc = "findByName" ->
         LET authorIds ==
               {ObjectIdToString(<<"A", n>>) :
                  n \in AuthorFindByName(st.authors, pr.data.authorName)}
         IN  IF RegExpThrows(pr.data.authorName)
             THEN Done(st, pr, "DatabaseError")
             ELSE IF authorIds = {} THEN Return(st, pr, <<>>)
             ELSE [st |-> st,
                   pr |-> [pr EXCEPT !.pc = "findAll", !.tmp = authorIds]]
    [] pr.pc = "findAll" ->
         LET kept == {n \in DOMAIN st.books :
                        \E k \in 1..Len(st.books[n].authorIds) :
                           st.books[n].authorIds[k] \in pr.tmp}
         IN  Return(st, pr, Docs(st.books, "B", kept))

\* getBooksByGenre that keeps the books whose genre contains the query.
getBooksByGenreIncludes(st, pr) ==
  LET kept == {n \in DOMAIN st.books :
                 includes(toLowerCase(st.books[n].genre),
                          toLowerCase(pr.data.genre))}
  IN  Return(st, pr, Docs(st.books, "B", kept))

\* getBooksByGenre: findAll filtered by book.genre.toLowerCase() ===
\* genre.toLowerCase().
getBooksByGenre(st, pr) ==
  LET kept == {n \in DOMAIN st.books :
                 toLowerCase(st.books[n].genre) = toLowerCase(pr.data.genre)}
  IN  Return(st, pr, Docs(st.books, "B", kept))

\* searchAuthors that looks at the three names only.
searchAuthorsNamesOnly(st, pr) ==
  LET q == toLowerCase(pr.data.query)
      kept == {n \in DOMAIN st.authors :
                 \/ includes(toLowerCase(st.authors[n].firstName), q)
                 \/ includes(toLowerCase(st.authors[n].lastName), q)
                 \/ includes(toLowerCase(st.authors[n].fullName), q)}
  IN  Return(st, pr, Docs(st.authors, "A", kept))

\* searchAuthors: findAll filtered by the three names, and by biography
\* and nationality where the field is truthy (author.biography && ...).
searchAuthors(st, pr) ==
  LET q == toLowerCase(pr.data.query)
      kept == {n \in DOMAIN st.authors :
                 \/ includes(toLowerCase(st.authors[n].firstName), q)
                 \/ includes(toLowerCase(st.authors[n].lastName), q)
                 \/ includes(toLowerCase(st.authors[n].fullName), q)
                 \/ /\ Truthy(st.authors[n], "biography")
                    /\ includes(toLowerCase(st.authors[n].biography), q)
                 \/ /\ Truthy(st.authors[n], "nationality")
                    /\ includes(toLowerCase(st.authors[n].nationality), q)}
  IN  Return(st, pr, Docs(st.authors, "A", kept))

\* The next store call of request pr.
Step(st, pr) ==
  CASE pr.op = "createAuthor" -> createAuthor(st, pr)
    [] pr.op = "updateAuthor" -> updateAuthor(st, pr)
    [] pr.op = "deleteAuthor" -> deleteAuthor(st, pr)
    [] pr.op = "createBook" -> createBook(st, pr)
    [] pr.op = "updateBook" -> updateBook(st, pr)
    [] pr.op = "deleteBook" -> deleteBook(st, pr)
    [] pr.op = "updateStock" -> updateStock(st, pr)
    [] pr.op = "getAuthorById" -> getAuthorById(st, pr)
    [] pr.op = "getBookById" -> getBookById(st, pr)
    [] pr.op = "validateAuthorExists" -> validateAuthorExistsCall(st, pr)
    [] pr.op = "booksWithAuthors" -> booksWithAuthors(st, pr)
    [] pr.op = "searchBooks" -> searchBooks(st, pr)
    [] pr.op = "getBooksByAuthor" -> getBooksByAuthor(st, pr)
    [] pr.op = "getBooksByGenre" -> getBooksByGenre(st, pr)
    [] pr.op = "searchAuthors" -> searchAuthors(st, pr)

\* A request that runs with no other request in between.
RECURSIVE RunToEnd(_, _)
RunToEnd(st, pr) ==
  IF pr.pc = "done" THEN [st |-> st, pr |-> pr]
  ELSE LET r == Step(st, pr) IN RunToEnd(r.st, r.pr)

(***************************************************************************)
(* HTTP boundary: the status of the response to a finished request.       *)
(***************************************************************************)
\* The error handler without the case for BusinessError: it falls to the
\* default, 500.
HttpStatusNoBusinessCase(op, outcome) ==
  CASE outcome = "ok" ->
         IF op \in {"createAuthor", "createBook"} THEN 201 ELSE 200
    [] outcome = "NotFoundError" -> 404
    [] outcome = "ValidationError" -> 400
    [] outcome = "DatabaseError" -> 500
    [] outcome = "BusinessError" -> 500

HttpStatus(op, outcome) ==
  CASE outcome = "ok" ->
         IF op \in {"createAuthor", "createBook"} THEN 201 ELSE 200
    [] outcome = "NotFoundError" -> 404
    [] outcome = "ValidationError" -> 400
    [] outcome = "DatabaseError" -> 500
    [] outcome = "BusinessError" -> 409

\* Schema.decodeUnknownSync(CreateBookRequest)(req.body) throws unless
\* the body has the required fields; title, isbn and genre are strings,
\* authorIds an array of strings, price and stock numbers of any sign.
DecodesCreateBookRequest(body) ==
  /\ {"title", "authorIds", "isbn", "price", "stock", "genre"}
       \subseteq DOMAIN body
  /\ body.price \in Int
  /\ body.stock \in Int

(***************************************************************************)
(* Inputs                                                                  *)
(***************************************************************************)
Procs == {"p1", "p2"}

FirstNames == {<<"a">>, <<"b">>}

LastNames == {<<"b">>}

FullNames == {<<>>, <<"a">>, <<"A">>, <<"a", "$">>, <<"(">>}

AuthorInputs ==
  [firstName : FirstNames, lastName : LastNames, fullName : FullNames]

EmptyPatch == <<>>

AuthorPatches ==
  {EmptyPatch}
    \cup {[fullName |-> n] : n \in FullNames}
    \cup {[firstName |-> f] : f \in FirstNames}
    \cup {[firstName |-> <<"b">>, fullName |-> <<"a">>]}

\* The ids a client may send for an author: the id of every author ever
\* stored, the first one also in upper case, a well-formed id that was
\* never handed out (n = 0), and a malformed one.
AuthorIdArgs ==
  {IdString("A", n, "lc") : n \in 0..MaxAuthors}
    \cup {IdString("A", 1, "uc"), BadId}

BookIdArgs ==
  {IdString("B", n, "lc") : n \in 0..MaxBooks}
    \cup {IdString("B", 1, "uc"), BadId}

\* Two authors with unrelated plain names.
PlainAuthors ==
  {[firstName |-> <<"a">>, lastName |-> <<"b">>, fullName |-> <<"a", "b">>],
   [firstName |-> <<"b">>, lastName |-> <<"a">>, fullName |-> <<"b", "a">>]}

\* authorIds of book requests: stored authors in either case, a pair, an id
\* never handed out, and a malformed id after a well-formed one.
AuthorIdLists ==
  {<<IdString("A", 1, "lc")>>,
   <<IdString("A", 1, "uc")>>,
   <<IdString("A", 1, "lc"), IdString("A", 2, "lc")>>,
   <<IdString("A", 0, "lc")>>,
   <<IdString("A", 1, "lc"), BadId>>}

Titles == {<<"t">>}

Genres == {<<"g">>}

Prices == {1}

Isbns == {"i1", "i2"}

StockInputs == (0 - 1)..MaxStock

Deltas == (0 - (MaxStock + 1))..MaxStock

\* Book requests that reference no author, with every stock value.
BookInputsStock ==
  [title : Titles, authorIds : {<<>>}, isbn : Isbns, price : Prices,
   stock : StockInputs, genre : Genres]

BookPatchesStock ==
  {EmptyPatch}
    \cup {[isbn |-> x] : x \in Isbns}
    \cup {[stock |-> k] : k \in StockInputs}
    \cup {[isbn |-> "i1", stock |-> 0]}

\* Book requests that reference authors, with one stock value.
BookInputsRef ==
  [title : Titles, authorIds : AuthorIdLists, isbn : Isbns, price : Prices,
   stock : {1}, genre : Genres]

BookPatchesRef == {[authorIds |-> l] : l \in AuthorIdLists}

(***************************************************************************)
(* Requests that run alone: the whole operation is one action of p1.      *)
(***************************************************************************)
Init ==
  /\ authors = <<>>
  /\ books = <<>>
  /\ nextAuthorOid = 1
  /\ nextBookOid = 1
  /\ clock = 0
  /\ procs = [p \in Procs |-> Idle]

Call(op, id, data) ==
  \E r \in {RunToEnd(Store(authors, books, nextAuthorOid, nextBookOid, clock),
                     Start(op, id, data))} :
      /\ authors' = r.st.authors
      /\ books' = r.st.books
      /\ nextAuthorOid' = r.st.nextAuthorOid
      /\ nextBookOid' = r.st.nextBookOid
      /\ clock' = clock
      /\ procs' = [procs EXCEPT !["p1"] = r.pr]

CallCreateAuthor(data) ==
  /\ nextAuthorOid <= MaxAuthors
  /\ Call("createAuthor", NoId, data)

CallUpdateAuthor(id, patch) ==
  /\ id \in AuthorIdArgs
  /\ Call("updateAuthor", id, patch)

CallDeleteAuthor(id) ==
  /\ id \in AuthorIdArgs
  /\ Call("deleteAuthor", id, NoData)

CallCreateBook(data) ==
  /\ nextBookOid <= MaxBooks
  /\ Call("createBook", NoId, data)

CallUpdateBook(id, patch) ==
  /\ id \in BookIdArgs
  /\ Call("updateBook", id, patch)

CallDeleteBook(id) ==
  /\ id \in BookIdArgs
  /\ Call("deleteBook", id, NoData)

\* The stock is kept within MaxStock.
CallUpdateStock(id, quantity) ==
  /\ Stored(books, "B", id) =>
       books[ObjectId(id)[2]].stock + quantity <= MaxStock
  /\ Call("updateStock", id, [quantity |-> quantity])

(***************************************************************************)
(* Author operations alone, over names of every kind.                     *)
(***************************************************************************)
NextAuthor ==
  \/ \E data \in AuthorInputs : CallCreateAuthor(data)
  \/ \E id \in AuthorIdArgs, patch \in AuthorPatches :
       CallUpdateAuthor(id, patch)
  \/ \E id \in AuthorIdArgs : CallDeleteAuthor(id)

SpecAuthor == Init /\ [][NextAuthor]_vars

(***************************************************************************)
(* Book operations alone, over every stock value.                         *)
(***************************************************************************)
NextStock ==
  \/ \E data \in BookInputsStock : CallCreateBook(data)
  \/ \E id \in BookIdArgs, patch \in BookPatchesStock :
       CallUpdateBook(id, patch)
  \/ \E id \in BookIdArgs : CallDeleteBook(id)
  \/ \E id \in BookIdArgs, quantity \in Deltas : CallUpdateStock(id, quantity)

SpecStock == Init /\ [][NextStock]_vars

(***************************************************************************)
(* Books whose stock changes through the stock endpoint alone.             *)
(***************************************************************************)
NextQuantity ==
  \/ \E data \in BookInputsStock : CallCreateBook(data)
  \/ \E id \in BookIdArgs : CallDeleteBook(id)
  \/ \E id \in BookIdArgs, quantity \in Deltas : CallUpdateStock(id, quantity)

SpecQuantity == Init /\ [][NextQuantity]_vars

(***************************************************************************)
(* Books that reference authors.                                          *)
(***************************************************************************)
NextRef ==
  \/ \E data \in PlainAuthors : CallCreateAuthor(data)
  \/ \E id \in AuthorIdArgs : CallDeleteAuthor(id)
  \/ \E data \in BookInputsRef : CallCreateBook(data)
  \/ \E id \in BookIdArgs, patch \in BookPatchesRef : CallUpdateBook(id, patch)
  \/ \E id \in BookIdArgs : CallDeleteBook(id)

SpecRef == Init /\ [][NextRef]_vars

(***************************************************************************)
(* Create, read, update and delete of both collections.                   *)
(***************************************************************************)
AuthorPatchesCrud ==
  {[fullName |-> <<"a", "b">>], [firstName |-> <<"b">>]}

BookInputsCrud ==
  [title : Titles,
   authorIds : {<<IdString("A", 1, "lc")>>, <<IdString("A", 0, "lc")>>},
   isbn : Isbns, price : Prices, stock : {1}, genre : Genres]

BookPatchesCrud ==
  {[price |-> 2], [authorIds |-> <<IdString("A", 0, "lc")>>]}

CallGetAuthorById(id) ==
  /\ id \in AuthorIdArgs
  /\ Call("getAuthorById", id, NoData)

CallGetBookById(id) ==
  /\ id \in BookIdArgs
  /\ Call("getBookById", id, NoData)

CallValidateAuthorExists(id) ==
  /\ id \in AuthorIdArgs
  /\ Call("validateAuthorExists", id, NoData)

NextCrud ==
  \/ \E data \in PlainAuthors : CallCreateAuthor(data)
  \/ \E id \in AuthorIdArgs, patch \in AuthorPatchesCrud :
       CallUpdateAuthor(id, patch)
  \/ \E id \in AuthorIdArgs : CallDeleteAuthor(id)
  \/ \E id \in AuthorIdArgs : CallGetAuthorById(id)
  \/ \E id \in AuthorIdArgs : CallValidateAuthorExists(id)
  \/ \E data \in BookInputsCrud : CallCreateBook(data)
  \/ \E id \in BookIdArgs, patch \in BookPatchesCrud :
       CallUpdateBook(id, patch)
  \/ \E id \in BookIdArgs : CallDeleteBook(id)
  \/ \E id \in BookIdArgs : CallGetBookById(id)

SpecCrud == Init /\ [][NextCrud]_vars

(***************************************************************************)
(* Creates and updates while time passes.                                 *)
(***************************************************************************)
\* Time passes between two requests.
Tick ==
  /\ clock < MaxClock
  /\ clock' = clock + 1
  /\ UNCHANGED <<authors, books, nextAuthorOid, nextBookOid, procs>>

\* Patches of no field and of a field the author does not have yet.
AuthorPatchesTime == {EmptyPatch, [biography |-> <<"b">>]}

BookInputsTime ==
  [title : Titles, authorIds : {<<>>}, isbn : Isbns, price : Prices,
   stock : {1}, genre : Genres]

\* Patches of no field and of two fields, one that every book has and one
\* that the book does not have yet.
BookPatchesTime == {EmptyPatch, [price |-> 2, description |-> <<"b">>]}

\* Ids of documents that may be stored, and one that never is.
AuthorIdsTime == {IdString("A", n, "lc") : n \in 0..MaxAuthors}

BookIdsTime == {IdString("B", n, "lc") : n \in 0..MaxBooks}

\* At most MaxDocs documents are ever created.
CreatesLeft == (nextAuthorOid - 1) + (nextBookOid - 1) < MaxDocs

NextTime ==
  \/ Tick
  \/ \E data \in PlainAuthors : CreatesLeft /\ CallCreateAuthor(data)
  \/ \E id \in AuthorIdsTime, patch \in AuthorPatchesTime :
       CallUpdateAuthor(id, patch)
  \/ \E id \in AuthorIdsTime : CallDeleteAuthor(id)
  \/ \E data \in BookInputsTime : CreatesLeft /\ CallCreateBook(data)
  \/ \E id \in BookIdsTime, patch \in BookPatchesTime :
       CallUpdateBook(id, patch)
  \/ \E id \in BookIdsTime : CallDeleteBook(id)

SpecTime == Init /\ [][NextTime]_vars

(***************************************************************************)
(* Reads that join books and authors.                                     *)
(***************************************************************************)
\* Three books: one author, two authors (the first id in upper case), and
\* no author; the titles differ in letter case.
BookInputsQuery ==
  {[title |-> <<"t">>, authorIds |-> <<IdString("A", 1, "lc")>>,
    isbn |-> "i1", price |-> 1, stock |-> 1, genre |-> <<"g">>],
   [title |-> <<"T", "a">>,
    authorIds |-> <<IdString("A", 1, "uc"), IdString("A", 2, "lc")>>,
    isbn |-> "i2", price |-> 1, stock |-> 1, genre |-> <<"g">>],
   [title |-> <<"b">>, authorIds |-> <<>>,
    isbn |-> "i3", price |-> 1, stock |-> 1, genre |-> <<"G", "a">>]}

\* Queries of searchBooks: empty, in either case, and one that matches
\* nothing.
Queries == {<<>>, <<"a">>, <<"T">>, <<"A", "b">>, <<"b", "b">>}

\* Names of getBooksByAuthor: plain ones, and ones with characters that
\* are special in a regular expression.
AuthorNames == {<<"a">>, <<"B", "a">>, <<"b", "b">>, <<"a", "$">>, <<"(">>}

\* Genres of getBooksByGenre: the genre of a stored book in either case,
\* a proper substring of one, and the empty string.
GenreArgs == {<<"g">>, <<"G">>, <<"g", "A">>, <<"a">>, <<>>}

CallBooksWithAuthors ==
  /\ procs["p1"].pc = "done"
  /\ Call("booksWithAuthors", NoId, NoData)

CallSearchBooks(query) ==
  /\ query \in Queries
  /\ Call("searchBooks", NoId, [query |-> query])

CallGetBooksByAuthor(authorName) ==
  /\ authorName \in AuthorNames
  /\ Call("getBooksByAuthor", NoId, [authorName |-> authorName])

CallGetBooksByGenre(genre) ==
  /\ genre \in GenreArgs
  /\ Call("getBooksByGenre", NoId, [genre |-> genre])

NextQuery ==
  \/ \E data \in PlainAuthors : CallCreateAuthor(data)
  \/ \E id \in AuthorIdArgs : CallDeleteAuthor(id)
  \/ \E data \in BookInputsQuery : CallCreateBook(data)
  \/ \E id \in BookIdArgs : CallDeleteBook(id)
  \/ CallBooksWithAuthors
  \/ \E query \in Queries : CallSearchBooks(query)
  \/ \E authorName \in AuthorNames : CallGetBooksByAuthor(authorName)
  \/ \E genre \in GenreArgs : CallGetBooksByGenre(genre)

SpecQuery == Init /\ [][NextQuery]_vars

(***************************************************************************)
(* Every operation that writes, with requests that fail in every way.     *)
(***************************************************************************)
\* A patch to the full name of the author created first.
AuthorPatchesWrite == {[fullName |-> <<"a", "b">>]}

\* A delta that the stock of a new book does not cover, and one it does.
DeltasWrite == {0 - MaxStock, 1}

NextWrite ==
  \/ \E data \in PlainAuthors : CallCreateAuthor(data)
  \/ \E id \in AuthorIdArgs, patch \in AuthorPatchesWrite :
       CallUpdateAuthor(id, patch)
  \/ \E data \in BookInputsCrud : CallCreateBook(data)
  \/ \E id \in BookIdArgs, patch \in BookPatchesCrud :
       CallUpdateBook(id, patch)
  \/ \E id \in BookIdArgs : CallDeleteBook(id)
  \/ \E id \in BookIdArgs, quantity \in DeltasWrite :
       CallUpdateStock(id, quantity)

SpecWrite == Init /\ [][NextWrite]_vars

(***************************************************************************)
(* POST /api/books: the request body is decoded, then createBook runs.    *)
(***************************************************************************)
PriceInputs == {0 - 1, 0, 1}

\* Bodies with every price, and one without a price.
BookBodies ==
  [title : Titles, authorIds : {<<>>}, isbn : Isbns, price : PriceInputs,
   stock : {1}, genre : Genres]
    \cup {[title |-> <<"t">>, authorIds |-> <<>>, isbn |-> "i1",
           stock |-> 1, genre |-> <<"g">>]}

\* The handler fails with ValidationError before it calls the service.
RejectBody(op, body) ==
  /\ procs' = [procs EXCEPT !["p1"] =
                 [Start(op, NoId, body) EXCEPT !.pc = "done",
                                               !.outcome = "ValidationError"]]
  /\ UNCHANGED <<authors, books, nextAuthorOid, nextBookOid, clock>>

PostBooks(body) ==
  /\ nextBookOid <= MaxBooks
  /\ IF DecodesCreateBookRequest(body)
     THEN Call("createBook", NoId, body)
     ELSE RejectBody("createBook", body)

NextPost ==
  \/ \E body \in BookBodies : PostBooks(body)
  \/ \E id \in BookIdsTime : CallGetBookById(id)
  \/ \E id \in BookIdsTime : CallDeleteBook(id)

SpecPost == Init /\ [][NextPost]_vars

(***************************************************************************)
(* Search over authors with and without the optional fields.              *)
(***************************************************************************)
\* An author with the required fields only, one with a biography, and one
\* with an empty biography and a nationality.
AuthorInputsSearch ==
  {[firstName |-> <<"a">>, lastName |-> <<"b">>, fullName |-> <<"a", "b">>],
   [firstName |-> <<"b">>, lastName |-> <<"a">>, fullName |-> <<"b", "a">>,
    biography |-> <<"T", "a">>],
   [firstName |-> <<"b">>, lastName |-> <<"b">>, fullName |-> <<"b", "b">>,
    biography |-> <<>>, nationality |-> <<"g">>]}

\* Patches that give an author a nationality or an empty biography.
AuthorPatchesSearch == {[nationality |-> <<"T">>], [biography |-> <<>>]}

\* Queries of searchAuthors: empty, ones that match a name, a biography or
\* a nationality in either case, and one that matches nothing.
AuthorQueries == {<<>>, <<"A">>, <<"t">>, <<"G">>, <<"t", "a">>, <<"g", "g">>}

CallSearchAuthors(query) ==
  /\ query \in AuthorQueries
  /\ Call("searchAuthors", NoId, [query |-> query])

NextSearch ==
  \/ \E data \in AuthorInputsSearch : CallCreateAuthor(data)
  \/ \E id \in AuthorIdsTime, patch \in AuthorPatchesSearch :
       CallUpdateAuthor(id, patch)
  \/ \E id \in AuthorIdsTime : CallDeleteAuthor(id)
  \/ \E query \in AuthorQueries : CallSearchAuthors(query)

SpecSearch == Init /\ [][NextSearch]_vars

(***************************************************************************)
(* Requests in flight at the same time: every store call of a request is  *)
(* one action.  p1 runs the book requests of one client, p2 the author    *)
(* requests of another, and their store calls interleave freely.          *)
(***************************************************************************)
\* The requests with operation op that have not inserted yet.
Creating(op) ==
  Cardinality({q \in Procs : /\ procs[q].op = op
                             /\ procs[q].pc \notin {"findOne", "done"}})

\* A request arrives at p.
Begin(p, op, id, data) ==
  /\ procs[p].pc = "done"
  /\ procs' = [procs EXCEPT ![p] = Start(op, id, data)]
  /\ UNCHANGED <<authors, books, nextAuthorOid, nextBookOid, clock>>

BeginCreateAuthor(p, data) ==
  /\ nextAuthorOid + Creating("createAuthor") <= MaxAuthors
  /\ Begin(p, "createAuthor", NoId, data)

BeginDeleteAuthor(p, id) ==
  /\ id \in AuthorIdArgs
  /\ Begin(p, "deleteAuthor", id, NoData)

BeginCreateBook(p, data) ==
  /\ nextBookOid + Creating("createBook") <= MaxBooks
  /\ Begin(p, "createBook", NoId, data)

BeginUpdateBook(p, id, patch) ==
  /\ id \in BookIdArgs
  /\ Begin(p, "updateBook", id, patch)

\* The response to a finished request: the operation and how it ended.
Response(pr) ==
  IF pr.pc = "done" THEN [Idle EXCEPT !.op = pr.op, !.outcome = pr.outcome]
  ELSE pr

\* The next store call of the request of p.
StepProc(p) ==
  /\ procs[p].pc # "done"
  /\ \E r \in {Step(Store(authors, books, nextAuthorOid, nextBookOid,
                           clock), procs[p])} :
        /\ authors' = r.st.authors
        /\ books' = r.st.books
        /\ nextAuthorOid' = r.st.nextAuthorOid
        /\ nextBookOid' = r.st.nextBookOid
        /\ clock' = clock
        /\ procs' = [procs EXCEPT ![p] = Response(r.pr)]

NextConc ==
  \/ \E data \in PlainAuthors : BeginCreateAuthor("p2", data)
  \/ \E id \in AuthorIdArgs : BeginDeleteAuthor("p2", id)
  \/ \E data \in BookInputsRef : BeginCreateBook("p1", data)
  \/ \E id \in BookIdArgs, patch \in BookPatchesRef :
       BeginUpdateBook("p1", id, patch)
  \/ \E p \in Procs : StepProc(p)

SpecConc == Init /\ [][NextConc]_vars

(***************************************************************************)
(* Two clients that create at the same time: each runs createAuthor and   *)
(* createBook requests, one store call per step.                          *)
(***************************************************************************)
\* Book requests that name the author created first.
BookInputsRace ==
  [title : Titles, authorIds : {<<IdString("A", 1, "lc")>>}, isbn : Isbns,
   price : Prices, stock : {1}, genre : Genres]

NextRace ==
  \/ \E p \in Procs, data \in PlainAuthors : BeginCreateAuthor(p, data)
  \/ \E p \in Procs, data \in BookInputsRace : BeginCreateBook(p, data)
  \/ \E p \in Procs : StepProc(p)

SpecRace == Init /\ [][NextRace]_vars

(***************************************************************************)
(* Two clients that change the stock of a book at the same time, while    *)
(* the book may be deleted.  A finished request stays on record until the *)
(* client sends the next one.                                             *)
(***************************************************************************)
\* Books with one ISBN, no author and a stock that is not negative.
BookInputsRaceStock ==
  [title : Titles, authorIds : {<<>>}, isbn : {"i1"}, price : Prices,
   stock : 0..MaxStock, genre : Genres]

DeltasRace == {0 - MaxStock, 0 - 1, 1}

BeginUpdateStock(p, id, quantity) ==
  /\ id \in BookIdsTime
  /\ Begin(p, "updateStock", id, [quantity |-> quantity])

BeginDeleteBook(p, id) ==
  /\ id \in BookIdsTime
  /\ Begin(p, "deleteBook", id, NoData)

\* The read of an updateStock that would bring the stock above MaxStock.
AboveMaxStock(pr) ==
  /\ pr.op = "updateStock"
  /\ pr.pc = "findById"
  /\ Stored(books, "B", pr.id)
  /\ books[ObjectId(pr.id)[2]].stock + pr.data.quantity > MaxStock

\* The next store call of the request of p; the stock is kept within
\* MaxStock.
StepStock(p) ==
  /\ procs[p].pc # "done"
  /\ ~AboveMaxStock(procs[p])
  /\ \E r \in {Step(Store(authors, books, nextAuthorOid, nextBookOid,
                           clock), procs[p])} :
        /\ authors' = r.st.authors
        /\ books' = r.st.books
        /\ nextAuthorOid' = r.st.nextAuthorOid
        /\ nextBookOid' = r.st.nextBookOid
        /\ clock' = clock
        /\ procs' = [procs EXCEPT ![p] = [r.pr EXCEPT !.result = NoResult]]

NextRaceStock ==
  \/ \E data \in BookInputsRaceStock : BeginCreateBook("p1", data)
  \/ \E p \in Procs, id \in BookIdsTime, quantity \in DeltasRace :
       BeginUpdateStock(p, id, quantity)
  \/ \E id \in BookIdsTime : BeginDeleteBook("p2", id)
  \/ \E p \in Procs : StepStock(p)

SpecRaceStock == Init /\ [][NextRaceStock]_vars

(***************************************************************************)
(* Properties                                                              *)
(***************************************************************************)
\* The request that p1 ran last.
last == procs["p1"]

\* Id string id names the stored document n of collection c.
Names(id, c, n) == ~ObjectIdThrows(id) /\ ObjectId(id) = <<c, n>>

\* C1: every stored book has stock >= 0.
C1_StockNeverNegative == \A n \in DOMAIN books : books[n].stock >= 0

\* C2: updateStock(id, delta) on a stored book with stock S succeeds and
\* leaves stock S + delta if S + delta >= 0; otherwise it fails with the
\* insufficient-stock error and the stored stock is still S.
C2_UpdateStockIff ==
  [][LET pr == procs'["p1"]
         n == ObjectId(pr.id)[2]
         S == books[n].stock
         delta == pr.data.quantity
     IN  (pr.op = "updateStock" /\ Stored(books, "B", pr.id)) =>
           IF S + delta >= 0
           THEN /\ pr.outcome = "ok"
                /\ books' = [books EXCEPT ![n].stock = S + delta]
           ELSE /\ pr.outcome = "BusinessError"
                /\ books' = books]_vars

\* An updateStock that brought the stock of a stored book down to 0.
C2_Witness ==
  /\ last.op = "updateStock"
  /\ last.outcome = "ok"
  /\ last.data.quantity < 0
  /\ Stored(books, "B", last.id)
  /\ books[ObjectId(last.id)[2]].stock = 0

\* C3: no two stored books have the same ISBN.
C3_IsbnUnique ==
  \A m, n \in DOMAIN books : m # n => books[m].isbn # books[n].isbn

\* C4: no two stored authors have full names that are equal when compared
\* case-insensitively.
C4_FullNameUnique ==
  \A m, n \in DOMAIN authors :
     m # n => toLowerCase(authors[m].fullName) # toLowerCase(authors[n].fullName)

\* C5: a createBook request with an author id that is not the id of a
\* stored author fails with a validation error (400) and the book
\* collection is unchanged.
C5_MissingAuthorIsValidationError ==
  [][LET pr == procs'["p1"]
     IN  (/\ pr.op = "createBook"
          /\ \E i \in 1..Len(pr.data.authorIds) :
                \/ ObjectIdThrows(pr.data.authorIds[i])
                \/ ~Stored(authors, "A", pr.data.authorIds[i]))
           => /\ pr.outcome = "ValidationError"
              /\ HttpStatus(pr.op, pr.outcome) = 400
              /\ books' = books]_vars

\* C6: createBook with the ISBN of a stored book and author ids that all
\* exist fails with a conflict (409), whatever the other fields are, and
\* the book collection is unchanged.
C6_DuplicateIsbnConflict ==
  [][LET pr == procs'["p1"]
     IN  (/\ pr.op = "createBook"
          /\ \E n \in DOMAIN books : books[n].isbn = pr.data.isbn
          /\ \A i \in 1..Len(pr.data.authorIds) :
                /\ ~ObjectIdThrows(pr.data.authorIds[i])
                /\ Stored(authors, "A", pr.data.authorIds[i]))
           => /\ pr.outcome = "BusinessError"
              /\ HttpStatus(pr.op, pr.outcome) = 409
              /\ books' = books]_vars

\* A createBook refused as a conflict although the stored book with its
\* ISBN has other author ids.
C6_Witness ==
  /\ last.op = "createBook"
  /\ last.outcome = "BusinessError"
  /\ \E n \in DOMAIN books :
        /\ books[n].isbn = last.data.isbn
        /\ books[n].authorIds # last.data.authorIds

\* C7: createAuthor with a full name that equals, case-insensitively, the
\* full name of a stored author fails with a conflict (409) and the author
\* collection is unchanged.
C7_DuplicateNameConflict ==
  [][LET pr == procs'["p1"]
     IN  (/\ pr.op = "createAuthor"
          /\ \E n \in DOMAIN authors :
                toLowerCase(authors[n].fullName)
                  = toLowerCase(pr.data.fullName))
           => /\ pr.outcome = "BusinessError"
              /\ HttpStatus(pr.op, pr.outcome) = 409
              /\ authors' = authors]_vars

\* C8: updateAuthor(id, patch) with a full name in the patch fails with a
\* conflict, leaving the store unchanged, exactly when some stored author
\* other than id has a case-insensitively equal full name.
C8_UpdateConflictIff ==
  [][LET pr == procs'["p1"]
     IN  (pr.op = "updateAuthor" /\ "fullName" \in DOMAIN pr.data) =>
           ((pr.outcome = "BusinessError" /\ authors' = authors)
              <=> \E n \in DOMAIN authors :
                     /\ ~Names(pr.id, "A", n)
                     /\ toLowerCase(authors[n].fullName)
                          = toLowerCase(pr.data.fullName))]_vars

\* The step from procs to procs' is the store call of p that writes a book
\* with author ids from the request: the insertOne of createBook, or the
\* findOneAndUpdate of an updateBook with authorIds that finds the book.
WritesBook(p) ==
  \/ /\ procs[p].op = "createBook"
     /\ procs[p].pc = "insertOne"
     /\ procs'[p].pc = "findOne"
  \/ /\ procs[p].op = "updateBook"
     /\ "authorIds" \in DOMAIN procs[p].data
     /\ procs[p].pc = "findOneAndUpdate"
     /\ procs'[p].pc = "done"
     /\ procs'[p].outcome = "ok"

\* The step is a probe of author id i of the request of p that finds the
\* author.
ProbePasses(p) ==
  /\ procs[p].pc = "validateAuthorExists"
  /\ \/ procs'[p].pc \in {"findAll", "findOneAndUpdate"}
     \/ /\ procs'[p].pc = "validateAuthorExists"
        /\ procs'[p].i = procs[p].i + 1

\* C9 as stated: when createBook, or updateBook with authorIds, writes the
\* book, every author id of the book is the id of a stored author, also
\* when deleteAuthor calls interleave.
C9_AuthorsStoredAtWrite ==
  [][\A p \in Procs :
       WritesBook(p) =>
         \A i \in 1..Len(procs[p].data.authorIds) :
            /\ ~ObjectIdThrows(procs[p].data.authorIds[i])
            /\ Stored(authors', "A", procs[p].data.authorIds[i])]_vars

\* C9 amended: every author id of a book request is the id of a stored
\* author in the state where the request validates it, and an author
\* leaves the collection only by the deleteOne of a deleteAuthor request.
C9_AuthorsStoredAtValidation ==
  [][/\ \A p \in Procs :
          ProbePasses(p) =>
            /\ ~ObjectIdThrows(procs[p].data.authorIds[procs[p].i])
            /\ Stored(authors, "A", procs[p].data.authorIds[procs[p].i])
     /\ \A n \in (DOMAIN authors) \ (DOMAIN authors') :
          \E q \in Procs :
             /\ procs[q].op = "deleteAuthor"
             /\ procs[q].pc = "deleteOne"
             /\ Names(procs[q].id, "A", n)
             /\ procs'[q].outcome = "ok"]_vars

\* A createBook has just inserted a book that lists two author ids, after
\* a deleteAuthor of the other client succeeded, and one of the ids has
\* no stored author.
C9_Witness ==
  /\ procs["p1"].op = "createBook"
  /\ procs["p1"].pc = "findOne"
  /\ procs["p1"].tmp \in DOMAIN books
  /\ Len(books[procs["p1"].tmp].authorIds) = 2
  /\ procs["p2"].op = "deleteAuthor"
  /\ procs["p2"].outcome = "ok"
  /\ \E i \in 1..2 :
        ~Stored(authors, "A", books[procs["p1"].tmp].authorIds[i])

\* C10: deleteAuthor(id) on an author referenced by stored books succeeds
\* and leaves the book collection unchanged.
C10_DeleteAuthorKeepsBooks ==
  [][LET pr == procs'["p1"]
     IN  (/\ pr.op = "deleteAuthor"
          /\ Stored(authors, "A", pr.id)
          /\ ~ObjectIdThrows(pr.id)
          /\ \E n \in DOMAIN books : \E i \in 1..Len(books[n].authorIds) :
                ObjectId(books[n].authorIds[i]) = ObjectId(pr.id))
           => /\ pr.outcome = "ok"
              /\ ~Stored(authors', "A", pr.id)
              /\ books' = books]_vars

\* A deleteAuthor that succeeded while a stored book still lists the id.
C10_Witness ==
  /\ last.op = "deleteAuthor"
  /\ last.outcome = "ok"
  /\ \E n \in DOMAIN books : \E i \in 1..Len(books[n].authorIds) :
        /\ ObjectId(books[n].authorIds[i]) = ObjectId(last.id)
        /\ ~Stored(authors, "A", last.id)

\* Collection c holds a document that id names.
StoredAs(coll, c, id) == \E n \in DOMAIN coll : Names(id, c, n)

\* C11: for authors and for books, delete of an id that is not stored
\* yields not-found and changes nothing; delete of a stored id removes
\* exactly that record; and every later get of that id yields not-found,
\* whatever operations follow: a removed record is never stored again and
\* a get of the id of a removed record yields not-found.
C11_DeleteThenNotFound ==
  [][LET pr == procs'["p1"]
         n == ObjectId(pr.id)[2]
     IN  /\ pr.op = "deleteBook" =>
               IF StoredAs(books, "B", pr.id)
               THEN /\ pr.outcome = "ok"
                    /\ books' = Remove(books, n)
                    /\ authors' = authors
               ELSE /\ pr.outcome = "NotFoundError"
                    /\ books' = books
                    /\ authors' = authors
         /\ pr.op = "deleteAuthor" =>
               IF StoredAs(authors, "A", pr.id)
               THEN /\ pr.outcome = "ok"
                    /\ authors' = Remove(authors, n)
                    /\ books' = books
               ELSE /\ pr.outcome = "NotFoundError"
                    /\ authors' = authors
                    /\ books' = books
         /\ \A k \in 1..(nextBookOid - 1) :
               k \notin DOMAIN books => k \notin DOMAIN books'
         /\ \A k \in 1..(nextAuthorOid - 1) :
               k \notin DOMAIN authors => k \notin DOMAIN authors'
         /\ (/\ pr.op = "getBookById"
             /\ \E k \in 1..(nextBookOid - 1) :
                   k \notin DOMAIN books /\ Names(pr.id, "B", k))
              => pr.outcome = "NotFoundError"
         /\ (/\ pr.op = "getAuthorById"
             /\ \E k \in 1..(nextAuthorOid - 1) :
                   k \notin DOMAIN authors /\ Names(pr.id, "A", k))
              => pr.outcome = "NotFoundError"]_vars

C14_FailFastOnFirstMissing ==
  [][LET pr == procs'["p1"]
         ids == pr.data.authorIds
         missing == {i \in 1..Len(ids) : ~StoredAs(authors, "A", ids[i])}
         first == CHOOSE i \in missing : \A j \in missing : i <= j
     IN  (pr.op = "createBook" /\ missing # {}) =>
           /\ pr.outcome = "ValidationError"
           /\ pr.result = [message |-> ids[first]]
           /\ pr.i = first
           /\ books' = books]_vars

\* C15: validateAuthorExists(id) returns true when an author with that id
\* is stored, and returns false, without failing, for every id with no
\* stored author.
C15_ValidateAuthorExistsTotal ==
  [][LET pr == procs'["p1"]
     IN  pr.op = "validateAuthorExists" =>
           /\ pr.outcome = "ok"
           /\ pr.result = IF StoredAs(authors, "A", pr.id)
                          THEN "true" ELSE "false"]_vars

\* The step is a request with its answer, not the passing of time.
Answers == clock' = clock

\* Collection new is collection old with the document under n patched:
\* the fields of patch have the values of patch, every other field but
\* updatedAt keeps its value, and every other document is unchanged.
Patched(old, new, n, patch) ==
  /\ DOMAIN new = DOMAIN old
  /\ \A k \in (DOMAIN old) \ {n} : new[k] = old[k]
  /\ DOMAIN new[n] = (DOMAIN old[n]) \cup (DOMAIN patch)
  /\ \A f \in DOMAIN patch : new[n][f] = patch[f]
  /\ \A f \in (DOMAIN old[n]) \ ((DOMAIN patch) \cup {"updatedAt"}) :
        new[n][f] = old[n][f]
  /\ new[n].createdAt = old[n].createdAt

\* C17: a successful updateBook or updateAuthor changes, in the target
\* record, only the fields present in the patch and the update timestamp;
\* the id, the creation timestamp and every field absent from the patch
\* keep their values, and every other record of both collections is
\* unchanged.
C17_UpdateFrame ==
  [][LET pr == procs'["p1"]
         n == ObjectId(pr.id)[2]
     IN  /\ (Answers /\ pr.op = "updateAuthor" /\ pr.outcome = "ok") =>
               /\ Patched(authors, authors', n, pr.data)
               /\ pr.result = WithId("A", n, authors'[n])
               /\ books' = books
         /\ (Answers /\ pr.op = "updateBook" /\ pr.outcome = "ok") =>
               /\ Patched(books, books', n, pr.data)
               /\ pr.result = WithId("B", n, books'[n])
               /\ authors' = authors]_vars

\* An updateAuthor of a field the author did not have succeeded, after the time of the author's
\* creation, while another author is stored.
C17_Witness ==
  /\ last.op = "updateAuthor"
  /\ last.outcome = "ok"
  /\ DOMAIN last.data = {"biography"}
  /\ last.result.createdAt < last.result.updatedAt
  /\ Cardinality(DOMAIN authors) = 2

\* Collection new is collection old with one more document, under a number
\* n that was never handed out, and record is that document: it has the
\* id of n, equal timestamps and the fields of data.
Created(old, new, nextOid, c, data, record) ==
  \E n \in (DOMAIN new) \ (DOMAIN old) :
     /\ n >= nextOid
     /\ DOMAIN new = (DOMAIN old) \cup {n}
     /\ \A k \in DOMAIN old : new[k] = old[k]
     /\ record = WithId(c, n, new[n])
     /\ record.createdAt = record.updatedAt
     /\ DOMAIN record
          = (DOMAIN data) \cup {"_id", "createdAt", "updatedAt"}
     /\ \A f \in DOMAIN data : record[f] = data[f]

\* C18: every successful createAuthor and createBook returns a record
\* that has an id different from the id of every record stored before it,
\* creation timestamp equal to update timestamp, and the request's field
\* values; exactly that record is added to the collection.
C18_CreateReturnsRecord ==
  [][LET pr == procs'["p1"]
     IN  /\ (Answers /\ pr.op = "createAuthor" /\ pr.outcome = "ok") =>
               /\ Created(authors, authors', nextAuthorOid, "A", pr.data,
                          pr.result)
               /\ books' = books
         /\ (Answers /\ pr.op = "createBook" /\ pr.outcome = "ok") =>
               /\ Created(books, books', nextBookOid, "B", pr.data,
                          pr.result)
               /\ authors' = authors]_vars

\* A createBook succeeded at time 1 after the book created first was
\* deleted.
C18_Witness ==
  /\ last.op = "createBook"
  /\ last.outcome = "ok"
  /\ last.result.createdAt = 1
  /\ last.result._id = ObjectIdToString(<<"B", 2>>)
  /\ DOMAIN books = {2}

\* The elements of sequence s.
Range(s) == {s[k] : k \in 1..Len(s)}

\* The stored authors that the ids of stored book n name.
AuthorsOf(n) ==
  {m \in DOMAIN authors :
     \E i \in 1..Len(books[n].authorIds) : Names(books[n].authorIds[i], "A", m)}

\* C16: the books-with-authors view returns one entry per stored book,
\* with the book's own fields unchanged and an authors field that holds
\* exactly the stored authors whose id is in the book's authorIds; an id
\* with no stored author is left out and the request still succeeds.
C16_BooksWithAuthorsView ==
  [][LET pr == procs'["p1"]
     IN  pr.op = "booksWithAuthors" =>
           /\ pr.outcome = "ok"
           /\ Len(pr.result) = Cardinality(DOMAIN books)
           /\ \A n \in DOMAIN books :
                 \E k \in 1..Len(pr.result) :
                    LET entry == pr.result[k]
                    IN  /\ entry._id = ObjectIdToString(<<"B", n>>)
                        /\ DOMAIN entry
                             = (DOMAIN books[n]) \cup {"_id", "authors"}
                        /\ \A f \in DOMAIN books[n] : entry[f] = books[n][f]
                        /\ Range(entry.authors)
                             = {WithId("A", m, authors[m]) : m \in AuthorsOf(n)}
                        /\ Len(entry.authors) = Cardinality(AuthorsOf(n))]_vars

\* The view returned a book with two author ids and one author.
C16_Witness ==
  /\ last.op = "booksWithAuthors"
  /\ last.outcome = "ok"
  /\ \E k \in 1..Len(last.result) :
        /\ Len(last.result[k].authorIds) = 2
        /\ Len(last.result[k].authors) = 1

\* q is a case-insensitive substring of s.
SubstringNoCase(q, s) == includes(toLowerCase(s), toLowerCase(q))

\* C19: searchBooks(query) returns exactly the stored books for which
\* query is a case-insensitive substring of the title or genre, or of the
\* first, last or full name of a stored author whose id is in the book's
\* authorIds; each such book appears once.
C19_SearchBooksExact ==
  [][LET pr == procs'["p1"]
         q == pr.data.query
         hits == {n \in DOMAIN books :
                    \/ SubstringNoCase(q, books[n].title)
                    \/ SubstringNoCase(q, books[n].genre)
                    \/ \E m \in AuthorsOf(n) :
                          \/ SubstringNoCase(q, authors[m].firstName)
                          \/ SubstringNoCase(q, authors[m].lastName)
                          \/ SubstringNoCase(q, authors[m].fullName)}
     IN  pr.op = "searchBooks" =>
           /\ pr.outcome = "ok"
           /\ Range(pr.result) = {WithId("B", n, books[n]) : n \in hits}
           /\ Len(pr.result) = Cardinality(hits)]_vars

\* A search returned two books, one of which matches by its title and by
\* the name of its author, the other by the name of its author only.
C19_Witness ==
  /\ last.op = "searchBooks"
  /\ last.outcome = "ok"
  /\ Len(last.result) = 2
  /\ \E n \in DOMAIN books :
        /\ SubstringNoCase(last.data.query, books[n].title)
        /\ \E m \in AuthorsOf(n) :
              SubstringNoCase(last.data.query, authors[m].fullName)
  /\ \E n \in DOMAIN books :
        /\ ~SubstringNoCase(last.data.query, books[n].title)
        /\ ~SubstringNoCase(last.data.query, books[n].genre)
        /\ \E m \in AuthorsOf(n) :
              SubstringNoCase(last.data.query, authors[m].fullName)

\* C20: getBooksByAuthor(name) returns the empty list when no stored
\* author matches name by first, last or full name, and otherwise returns
\* exactly the stored books whose authorIds contains the id of at least
\* one matching author.
C20_BooksByAuthorExact ==
  [][LET pr == procs'["p1"]
         name == pr.data.authorName
         matching == {m \in DOMAIN authors :
                        \/ SubstringNoCase(name, authors[m].firstName)
                        \/ SubstringNoCase(name, authors[m].lastName)
                        \/ SubstringNoCase(name, authors[m].fullName)}
         hits == {n \in DOMAIN books : AuthorsOf(n) \cap matching # {}}
     IN  pr.op = "getBooksByAuthor" =>
           /\ pr.outcome = "ok"
           /\ Range(pr.result) = {WithId("B", n, books[n]) : n \in hits}
           /\ Len(pr.result) = Cardinality(hits)]_vars

\* Sequences a and b are equal when letter case is ignored.
EqualNoCase(a, b) ==
  /\ Len(a) = Len(b)
  /\ \A k \in 1..Len(a) : LowerChar(a[k]) = LowerChar(b[k])

\* C21: getBooksByGenre(g) returns exactly the stored books whose genre
\* equals g when letter case is ignored; a book whose genre only contains
\* g as a proper substring is not returned.
C21_BooksByGenreExact ==
  [][LET pr == procs'["p1"]
         hits == {n \in DOMAIN books :
                    EqualNoCase(books[n].genre, pr.data.genre)}
     IN  pr.op = "getBooksByGenre" =>
           /\ pr.outcome = "ok"
           /\ Range(pr.result) = {WithId("B", n, books[n]) : n \in hits}
           /\ Len(pr.result) = Cardinality(hits)]_vars

\* getBooksByGenre returned a book whose genre differs from the query in
\* letter case, and left out a stored book whose genre contains the query.
C21_Witness ==
  /\ last.op = "getBooksByGenre"
  /\ last.outcome = "ok"
  /\ \E k \in 1..Len(last.result) : last.result[k].genre # last.data.genre
  /\ \E n \in DOMAIN books :
        /\ SubstringNoCase(last.data.genre, books[n].genre)
        /\ WithId("B", n, books[n]) \notin Range(last.result)

\* Stored author m has field f and q is a case-insensitive substring of
\* it.
FieldContains(m, f, q) ==
  f \in DOMAIN authors[m] /\ SubstringNoCase(q, authors[m][f])

\* C22: searchAuthors(q) returns exactly the stored authors for which q is
\* a case-insensitive substring of the first name, last name, full name,
\* biography or nationality; an absent biography or nationality never
\* matches.
C22_SearchAuthorsExact ==
  [][LET pr == procs'["p1"]
         hits == {m \in DOMAIN authors :
                    \E f \in {"firstName", "lastName", "fullName",
                               "biography", "nationality"} :
                       FieldContains(m, f, pr.data.query)}
     IN  pr.op = "searchAuthors" =>
           /\ pr.outcome = "ok"
           /\ Range(pr.result) = {WithId("A", m, authors[m]) : m \in hits}
           /\ Len(pr.result) = Cardinality(hits)]_vars

\* searchAuthors returned an author that matches by the biography only,
\* and left out a stored author that has no biography.
C22_Witness ==
  /\ last.op = "searchAuthors"
  /\ last.outcome = "ok"
  /\ \E m \in DOMAIN authors :
        /\ WithId("A", m, authors[m]) \in Range(last.result)
        /\ FieldContains(m, "biography", last.data.query)
        /\ \A f \in {"firstName", "lastName", "fullName", "nationality"} :
              ~FieldContains(m, f, last.data.query)
  /\ \E m \in DOMAIN authors :
        /\ "biography" \notin DOMAIN authors[m]
        /\ WithId("A", m, authors[m]) \notin Range(last.result)

\* C23: a POST /books request whose price is negative is rejected with
\* status 400 and no book is persisted.
C23_NegativePriceIs400 ==
  [][LET pr == procs'["p1"]
     IN  (/\ pr.op = "createBook"
          /\ "price" \in DOMAIN pr.data
          /\ pr.data.price < 0)
           => /\ HttpStatus(pr.op, pr.outcome) = 400
              /\ books' = books]_vars

\* C24: updateBook, updateStock and updateAuthor called with an id that
\* has no stored record yield not-found (404) and both collections are
\* unchanged.
C24_UpdateOfAbsentIsNotFound ==
  [][LET pr == procs'["p1"]
     IN  /\ (/\ pr.op \in {"updateBook", "updateStock"}
             /\ \A n \in DOMAIN books : ~Names(pr.id, "B", n))
              => /\ pr.outcome = "NotFoundError"
                 /\ HttpStatus(pr.op, pr.outcome) = 404
                 /\ authors' = authors
                 /\ books' = books
         /\ (/\ pr.op = "updateAuthor"
             /\ \A n \in DOMAIN authors : ~Names(pr.id, "A", n))
              => /\ pr.outcome = "NotFoundError"
                 /\ HttpStatus(pr.op, pr.outcome) = 404
                 /\ authors' = authors
                 /\ books' = books]_vars

Steps(p) == procs[p].pc # "done" /\ procs'[p] # procs[p]

\* Collection new is collection old with one more document, under n, that
\* has the fields of data.
Inserted(old, new, n, data) ==
  /\ DOMAIN new = (DOMAIN old) \cup {n}
  /\ n \notin DOMAIN old
  /\ \A k \in DOMAIN old : new[k] = old[k]
  /\ \A f \in DOMAIN data : new[n][f] = data[f]

\* C25: a createAuthor request that has passed the existence check
\* inserts its author whatever was inserted since; so when two requests
\* with the same full name both pass the check before either inserts,
\* both succeed and the store holds two authors with the same full name.
C25_CreateAuthorRace ==
  [][\A p \in Procs :
       (/\ Steps(p)
        /\ procs[p].op = "createAuthor"
        /\ procs[p].pc = "insertOne")
         => /\ procs'[p].pc = "findOne"
            /\ Inserted(authors, authors', nextAuthorOid, procs[p].data)]_vars

\* Both clients ran createAuthor, both succeeded, and two stored authors
\* have the same full name.
C25_Witness ==
  /\ \A p \in Procs : procs[p].op = "createAuthor" /\ procs[p].outcome = "ok"
  /\ \E m, n \in DOMAIN authors :
        m # n /\ authors[m].fullName = authors[n].fullName

\* C27: a createBook request that has passed the ISBN check inserts its
\* book whatever was inserted since; so when two requests with the same
\* ISBN and existing authors both pass the check before either inserts,
\* both succeed and the store holds two books with the same ISBN.
C27_CreateBookRace ==
  [][\A p \in Procs :
       (/\ Steps(p)
        /\ procs[p].op = "createBook"
        /\ procs[p].pc = "insertOne")
         => /\ procs'[p].pc = "findOne"
            /\ Inserted(books, books', nextBookOid, procs[p].data)]_vars

\* Both clients ran createBook, both succeeded, and two stored books have
\* the same ISBN and an author that is stored.
C27_Witness ==
  /\ \A p \in Procs : procs[p].op = "createBook" /\ procs[p].outcome = "ok"
  /\ \E m, n \in DOMAIN books :
        /\ m # n
        /\ books[m].isbn = books[n].isbn
        /\ \A i \in 1..Len(books[m].authorIds) :
              Stored(authors, "A", books[m].authorIds[i])

\* The stock that updateStock request pr read: newStock less the delta.
ReadStock(pr) == pr.tmp - pr.data.quantity

\* Request pr is an updateStock on document id that read the stock S and
\* has written, or is about to write.
HasRead(pr, id, S) ==
  /\ pr.op = "updateStock"
  /\ pr.id = id
  /\ \/ pr.pc = "findOneAndUpdate"
     \/ pr.pc = "done" /\ pr.outcome = "ok"
  /\ ReadStock(pr) = S

C28_StockNonNegativeInRaces == \A n \in DOMAIN books : books[n].stock >= 0

\* Both clients' updateStock requests on the same book read the same
\* stock and succeeded, with deltas that the stock covers one at a time
\* but not together.
C28_Witness ==
  LET p1 == procs["p1"]
      p2 == procs["p2"]
  IN  /\ p1.pc = "done" /\ p2.pc = "done"
      /\ HasRead(p1, p1.id, ReadStock(p1))
      /\ HasRead(p2, p1.id, ReadStock(p1))
      /\ Stored(books, "B", p1.id)
      /\ ReadStock(p1) + p1.data.quantity + p2.data.quantity < 0

\* C29: when deleteBook(id) takes effect between the read and the write
\* of updateStock(id, delta), the updateStock ends with not-found and
\* stores nothing; and a book that left the collection never returns.
C29_DeleteBetweenReadAndWrite ==
  [][/\ \A p \in Procs :
          (/\ Steps(p)
           /\ procs[p].op = "updateStock"
           /\ procs[p].pc = "findOneAndUpdate"
           /\ ~Stored(books, "B", procs[p].id))
            => /\ procs'[p].outcome = "NotFoundError"
               /\ books' = books
     /\ \A n \in (DOMAIN books') \ (DOMAIN books) : n >= nextBookOid]_vars

\* An updateStock ended with not-found after it had read the book (its
\* newStock is set), and the other client's deleteBook of that book
\* succeeded.
C29_Witness ==
  /\ procs["p1"].op = "updateStock"
  /\ procs["p1"].outcome = "NotFoundError"
  /\ procs["p1"].tmp > 0
  /\ procs["p2"].op = "deleteBook"
  /\ procs["p2"].outcome = "ok"
  /\ procs["p2"].id = procs["p1"].id

====
